---- MODULE Spec2Model ----
(***************************************************************************)
(* The QnA forum (qnas/views.py, qnas/models.py): the detail page's POST   *)
(* (new answer + vote) and GET (view recording), the question and tag      *)
(* listings, editing and deleting content, and the store operations they   *)
(* are made of.                                                            *)
(*                                                                         *)
(* Spec        non-overlapping detail-page POSTs (answers and votes)       *)
(* ViewSpec    non-overlapping detail-page GETs and the passing of time    *)
(* RaceSpec    vote requests interleaved at their store reads and writes   *)
(* ListSpec    the question listings over stores of questions              *)
(* TagSpec     the tag listing over stores of tags                         *)
(* EditedSpec  Question.is_edited over publication/modification times      *)
(* SiteSpec    answering, voting, viewing and deleting                     *)
(* OwnerSpec   answering, editing and deleting, by author and non-author   *)
(***************************************************************************)
EXTENDS Integers, Sequences, FiniteSets, TLC

VARIABLES
    answers,    \* rows of Answer: [pk, author, question, text]
    answerPk,   \* the next primary key of Answer
    votes,      \* [Question |-> rows of QuestionVote, Answer |-> rows of AnswerVote]
    votePk,     \* the next primary key of each vote table
    views,      \* rows of View: [pk, user, ip_address, question, view_time]
    viewPk,     \* the next primary key of View
    now,        \* timezone.now(), in seconds
    response,   \* how the last request ended
    procs,      \* RaceSpec: each in-flight request's position and locals
    questions,  \* rows of Question: [pk, author, body, pub_date, mod_date]
    tags,       \* rows of Tag: [pk, text, creation_date, questions]
    context,    \* what the last listing request rendered
    request     \* SiteSpec: the request handled last

vars == <<answers, answerPk, votes, votePk, views, viewPk, now, response, procs,
          questions, tags, context, request>>

(***************************************************************************)
(* Bounds                                                                  *)
(***************************************************************************)
MaxAnswers == 1     \* answers that can be posted
MaxVotes == 2       \* vote rows that can ever be inserted, in both tables
MaxClock == 10800   \* the clock stops here; seconds
MaxRequests == 3    \* RaceSpec: vote requests started in all

Users == {"u1", "u2"}
Questions == {1}
Kinds == {"Question", "Answer"}

\* Python's None, and an anonymous requester
None == "<None>"
Anonymous == "<AnonymousUser>"

(***************************************************************************)
(* Request fields                                                          *)
(***************************************************************************)
\* the strings int() accepts, and what it returns for them
IntLiterals == {"1", "-1", "5"}

int(s) ==
    CASE s = "1" -> 1
      [] s = "-1" -> -1
      [] s = "5" -> 5

\* POST['vote'], POST['answer_id'], POST['text'] as the client may send them
VoteFields == {None, "1", "-1", "5", "abc"}
AnswerIdFields == {None, "1", "5", "abc"}
TextFields == {None, "some text"}

\* Python truthiness of request.POST.get(...)
Truthy(s) == s # None /\ s # ""

(***************************************************************************)
(* Models                                                                  *)
(***************************************************************************)
UPVOTE == 1
DOWNVOTE == -1

RECURSIVE SumValues(_)
\* models.Sum('value') over a set of rows
SumValues(rows) ==
    IF rows = {} THEN 0
    ELSE LET r == CHOOSE x \in rows : TRUE
         IN r.value + SumValues(rows \ {r})

\* <target>.votes of a vote table: the rows whose foreign key is the target
VotesOf(table, target) ==
    {r \in table : r.target = target}

\* Mutant of vote_count: the rows are counted, not summed
vote_count_counting_rows(rows) == Cardinality(rows)

\* Question.vote_count and Answer.vote_count, on self.votes:
\* aggregate(vote_count=Sum('value')).get('vote_count') or 0, where the
\* aggregate is None over no rows, and None and 0 are both falsy
vote_count(rows) ==
    IF rows = {} THEN 0
    ELSE IF SumValues(rows) = 0 THEN 0
    ELSE SumValues(rows)

(***************************************************************************)
(* The store operations of get_or_create, delete and save on a vote table  *)
(***************************************************************************)
\* self.get(user=u, <target>=t): the rows the lookup matches
Get(table, u, t) == {r \in table : r.user = u /\ r.target = t}

\* unique_together = [user, <target>, value]
UniqueTogether(table, row) ==
    \A r \in table :
        r.pk # row.pk => ~(r.user = row.user /\ r.target = row.target /\ r.value = row.value)

\* DELETE ... WHERE id = pk
Delete(table, pk) == {r \in table : r.pk # pk}

\* UPDATE ... SET value = v WHERE id = pk
Update(table, pk, v) ==
    {IF r.pk = pk THEN [r EXCEPT !.value = v] ELSE r : r \in table}

NoVote == [pk |-> 0, user |-> None, target |-> 0, value |-> 0]

\* What a store call hands back: the table after it, the next primary key,
\* the instance in memory, whether it was created, and the exception raised
Outcome(table, pk, vote, created, error) ==
    [table |-> table, pk |-> pk, vote |-> vote, created |-> created, error |-> error]

\* objects.create(user=u, <target>=t, value=value): the INSERT.  The column
\* is NOT NULL, the field converts with int(), and no choices are validated
Create(table, pk, u, t, value) ==
    IF value = None THEN Outcome(table, pk, NoVote, FALSE, "IntegrityError")
    ELSE IF value \notin IntLiterals THEN Outcome(table, pk, NoVote, FALSE, "ValueError")
    ELSE LET row == [pk |-> pk, user |-> u, target |-> t, value |-> int(value)]
         IN IF UniqueTogether(table, row)
            THEN Outcome(table \cup {row}, pk + 1, row, TRUE, "")
            ELSE Outcome(table, pk, NoVote, FALSE, "IntegrityError")

\* The lookup of get_or_create: one row, DoesNotExist, or MultipleObjectsReturned
GetOne(table, pk, u, t) ==
    LET found == Get(table, u, t)
    IN IF found = {} THEN Outcome(table, pk, NoVote, FALSE, "DoesNotExist")
       ELSE IF Cardinality(found) > 1
            THEN Outcome(table, pk, NoVote, FALSE, "MultipleObjectsReturned")
       ELSE Outcome(table, pk, CHOOSE r \in found : TRUE, FALSE, "")

\* Mutant of get_or_create: the value is a lookup argument, not a default
get_or_create_value_in_lookup(table, pk, u, t, value) ==
    LET found == {r \in Get(table, u, t) : value \in IntLiterals /\ r.value = int(value)}
        made == Create(table, pk, u, t, value)
    IN IF found # {} THEN Outcome(table, pk, CHOOSE r \in found : TRUE, FALSE, "")
       ELSE made

\* <Vote>.objects.get_or_create(defaults={'value': value}, user=u, <target>=t)
\* with no other request in between: get, else create, and on IntegrityError
\* get again and re-raise when there is still no row
get_or_create(table, pk, u, t, value) ==
    LET got == GetOne(table, pk, u, t)
        made == Create(table, pk, u, t, value)
        again == GetOne(made.table, made.pk, u, t)
    IN IF got.error # "DoesNotExist" THEN got
       ELSE IF made.error # "IntegrityError" THEN made
       ELSE IF again.error = "DoesNotExist" THEN made
       ELSE again

\* Mutant of Save: the changed vote is stored as a new row
SaveAsNewRow(table, pk, vote) ==
    Outcome(table \cup {[vote EXCEPT !.pk = pk]}, pk + 1, vote, FALSE, "")

\* vote.save() of a loaded instance: UPDATE by primary key, and INSERT when the
\* UPDATE matched no row
Save(table, pk, vote) ==
    IF \E r \in table : r.pk = vote.pk
    THEN IF UniqueTogether(table, vote)
         THEN Outcome(Update(table, vote.pk, vote.value), pk, vote, FALSE, "")
         ELSE Outcome(table, pk, vote, FALSE, "IntegrityError")
    ELSE IF UniqueTogether(table, vote)
         THEN Outcome(table \cup {vote}, pk, vote, FALSE, "")
         ELSE Outcome(table, pk, vote, FALSE, "IntegrityError")

\* Mutant of _manage_votes: the stored integer is compared with the string of
\* the request, which it never equals
_manage_votes_without_int(table, pk, value, vote, created) ==
    IF created THEN Outcome(table, pk, vote, created, "")
    ELSE IF value \notin IntLiterals THEN Outcome(table, pk, vote, created, "ValueError")
    ELSE Save(table, pk, [vote EXCEPT !.value = int(value)])

\* _manage_votes(value, (vote, created)) on the table the vote is a row of
_manage_votes(table, pk, value, vote, created) ==
    IF created THEN Outcome(table, pk, vote, created, "")
    ELSE IF value = None THEN Outcome(table, pk, vote, created, "TypeError")
    ELSE IF value \notin IntLiterals THEN Outcome(table, pk, vote, created, "ValueError")
    ELSE IF vote.value = int(value)
         THEN Outcome(Delete(table, vote.pk), pk, vote, created, "")
    ELSE Save(table, pk, [vote EXCEPT !.value = int(value)])

\* _manage_votes(value, <Vote>.objects.get_or_create(...)): the argument is
\* evaluated first, and its exception ends the call
cast_vote(table, pk, u, t, value) ==
    LET goc == get_or_create(table, pk, u, t, value)
    IN IF goc.error # "" THEN goc
       ELSE _manage_votes(goc.table, goc.pk, value, goc.vote, goc.created)

(***************************************************************************)
(* The detail page's POST                                                  *)
(***************************************************************************)
\* AnswerForm(request.POST).is_valid(): text is a required field
is_valid(text) == Truthy(text)

\* _new_answer(request, question): the Answer table after it
_new_answer(ans, apk, user, question, text) ==
    IF is_valid(text)
    THEN [answers |-> ans \cup {[pk |-> apk, author |-> user, question |-> question,
                                  text |-> text]},
          answerPk |-> apk + 1]
    ELSE [answers |-> ans, answerPk |-> apk]

\* The store after a request, and how the request ended
Result(ans, apk, vts, vpk, status) ==
    [answers |-> ans, answerPk |-> apk, votes |-> vts, votePk |-> vpk, response |-> status]

\* An uncaught exception is a 500, Http404 a 404
Status(error) == IF error = "" THEN "302 detail" ELSE "500"

\* _vote(request, question) on the store st, the requests before it finished
_vote(st, user, question, value, ans_id) ==
    IF Truthy(ans_id)
    THEN IF ans_id \notin IntLiterals
         THEN Result(st.answers, st.answerPk, st.votes, st.votePk, "500")
         ELSE IF ~\E a \in st.answers : a.pk = int(ans_id)
         THEN Result(st.answers, st.answerPk, st.votes, st.votePk, "404")
         ELSE LET out == cast_vote(st.votes["Answer"], st.votePk["Answer"],
                                   user, int(ans_id), value)
              IN Result(st.answers, st.answerPk,
                        [st.votes EXCEPT !["Answer"] = out.table],
                        [st.votePk EXCEPT !["Answer"] = out.pk], Status(out.error))
    ELSE IF Truthy(value)
    THEN LET out == cast_vote(st.votes["Question"], st.votePk["Question"],
                              user, question, value)
         IN Result(st.answers, st.answerPk,
                   [st.votes EXCEPT !["Question"] = out.table],
                   [st.votePk EXCEPT !["Question"] = out.pk], Status(out.error))
    ELSE Result(st.answers, st.answerPk, st.votes, st.votePk, "302 detail")

\* detail's POST without the is_authenticated test
detail_post_without_login_test(st, user, question, text, value, ans_id) ==
    LET na == _new_answer(st.answers, st.answerPk, user, question, text)
    IN _vote(Result(na.answers, na.answerPk, st.votes, st.votePk, st.response),
             user, question, value, ans_id)

\* detail(request, question_id) for a POST to an existing question: the
\* answer is saved before the vote is looked at, each in its own transaction
detail_post(st, user, question, text, value, ans_id) ==
    IF user = Anonymous
    THEN Result(st.answers, st.answerPk, st.votes, st.votePk, "302 login")
    ELSE LET na == _new_answer(st.answers, st.answerPk, user, question, text)
         IN _vote(Result(na.answers, na.answerPk, st.votes, st.votePk, st.response),
                  user, question, value, ans_id)

\* The store as the requests so far have left it
Store == Result(answers, answerPk, votes, votePk, response)

voteVars == <<answers, answerPk, votes, votePk>>
viewVars == <<views, viewPk, now>>
pageVars == <<questions, tags, context, request>>

\* No request was handled
NoRequest == [view |-> None]

\* A Question row; the dates are in microseconds where a specification says so
QuestionRow(pk, author, body, pub_date, mod_date) ==
    [pk |-> pk, author |-> author, body |-> body,
     pub_date |-> pub_date, mod_date |-> mod_date]

\* No listing was rendered
NoContext == [page |-> None, field |-> None, tag |-> {}, all |-> <<>>, tab |-> None]

Init ==
    /\ answers = {}
    /\ answerPk = 1
    /\ votes = [k \in Kinds |-> {}]
    /\ votePk = [k \in Kinds |-> 1]
    /\ views = {}
    /\ viewPk = 1
    /\ now = 0
    /\ response = None
    /\ procs = <<>>
    /\ questions = {QuestionRow(q, "u1", "some text", 0, 0) : q \in Questions}
    /\ tags = {}
    /\ context = NoContext
    /\ request = NoRequest

\* One POST to /questions/<question>/, start to finish
DetailPost(user, question, text, value, ans_id) ==
    LET res == detail_post(Store, user, question, text, value, ans_id)
    IN /\ res.answerPk <= MaxAnswers + 1
       /\ (res.votePk["Question"] - 1) + (res.votePk["Answer"] - 1) <= MaxVotes
       /\ answers' = res.answers
       /\ answerPk' = res.answerPk
       /\ votes' = res.votes
       /\ votePk' = res.votePk
       /\ response' = res.response
       /\ UNCHANGED <<viewVars, procs, pageVars>>

Next ==
    \E user \in Users \cup {Anonymous}, question \in Questions,
       text \in TextFields, value \in VoteFields, ans_id \in AnswerIdFields :
        DetailPost(user, question, text, value, ans_id)

Spec == Init /\ [][Next]_vars

(***************************************************************************)
(* The detail page's GET                                                   *)
(***************************************************************************)
\* META['HTTP_X_FORWARDED_FOR'] as its entries between commas; an absent
\* header reads as '', whose only entry is ''
ForwardedFor == {<<"">>, <<"10.0.0.1", "10.0.0.2">>}
\* META.get('REMOTE_ADDR')
RemoteAddr == {None, "10.0.0.1"}

\* x or y, of two strings
Or(x, y) == IF Truthy(x) THEN x ELSE y

\* The identifier of _manage_views: the user of an authenticated request,
\* else the first forwarded-for entry or the connection's address
Identifier(user, xff, addr) ==
    IF user # Anonymous
    THEN [field |-> "user", value |-> user]
    ELSE [field |-> "ip_address", value |-> Or(Head(xff), addr)]

\* View.objects.filter(**identifier, question=question); a lookup of None
\* is IS NULL
Filter(rows, identifier, question) ==
    {v \in rows : /\ v.question = question
                  /\ IF identifier.field = "user"
                     THEN v.user = identifier.value
                     ELSE v.ip_address = identifier.value}

\* views.latest("view_time")
latest(rows) == CHOOSE v \in rows : \A w \in rows : w.view_time <= v.view_time

\* Mutant of HrsSinceViewedOverOne: an hour sharp already counts
HrsSinceViewedAtLeastOne(view, clock) == (clock - view.view_time) >= 3600

\* View.hrs_since_viewed > 1: (timezone.now() - view_time).total_seconds()
\* / 3600 > 1, on whole seconds
HrsSinceViewedOverOne(view, clock) == (clock - view.view_time) > 3600

\* View(**identifier, question=question).save(); save() does not call clean()
NewView(pk, identifier, question, clock) ==
    [pk |-> pk,
     user |-> IF identifier.field = "user" THEN identifier.value ELSE None,
     ip_address |-> IF identifier.field = "ip_address" THEN identifier.value ELSE None,
     question |-> question,
     view_time |-> clock]

\* Mutant of _manage_views: a stale latest row is given the new time instead
\* of a new row being added
_manage_views_refreshing_latest(rows, pk, clock, user, xff, addr, question) ==
    LET identifier == Identifier(user, xff, addr)
        seen == Filter(rows, identifier, question)
    IN IF seen = {}
       THEN [views |-> rows \cup {NewView(pk, identifier, question, clock)},
             viewPk |-> pk + 1]
       ELSE IF HrsSinceViewedOverOne(latest(seen), clock)
       THEN [views |-> (rows \ {latest(seen)})
                          \cup {[latest(seen) EXCEPT !.view_time = clock]},
             viewPk |-> pk]
       ELSE [views |-> rows, viewPk |-> pk]

\* _manage_views(request, question): the View table after it
_manage_views(rows, pk, clock, user, xff, addr, question) ==
    LET identifier == Identifier(user, xff, addr)
        seen == Filter(rows, identifier, question)
        saved == [views |-> rows \cup {NewView(pk, identifier, question, clock)},
                  viewPk |-> pk + 1]
    IN IF seen = {} THEN saved
       ELSE IF HrsSinceViewedOverOne(latest(seen), clock) THEN saved
       ELSE [views |-> rows, viewPk |-> pk]

\* question.views.count()
view_count(rows, question) == Cardinality({v \in rows : v.question = question})

\* View.clean: a user or an IP address must be given
clean(view) == view.user # None \/ view.ip_address # None

\* One GET of /questions/<question>/, start to finish: the view is recorded
\* and the page rendered
DetailGet(user, xff, addr, question) ==
    LET res == _manage_views(views, viewPk, now, user, xff, addr, question)
    IN /\ views' = res.views
       /\ viewPk' = res.viewPk
       /\ response' = "200"
       /\ UNCHANGED <<voteVars, now, procs, pageVars>>

\* Time passes between requests
Delays == {3600, 3601}

Tick(d) ==
    /\ now + d <= MaxClock
    /\ now' = now + d
    /\ UNCHANGED <<voteVars, views, viewPk, response, procs, pageVars>>

ViewNext ==
    \/ \E user \in Users \cup {Anonymous}, xff \in ForwardedFor, addr \in RemoteAddr,
          question \in Questions :
           DetailGet(user, xff, addr, question)
    \/ \E d \in Delays : Tick(d)

ViewSpec == Init /\ [][ViewNext]_vars

(***************************************************************************)
(* The detail page's POST, one store read or write at a time (RaceSpec).   *)
(* Each request runs in its own worker; the store is all they share, and   *)
(* no transaction spans a request.  procs[i] is the i-th request started.  *)
(***************************************************************************)
\* The votes these requests cast, and the answers they name
RaceVoteFields == {"1", "-1"}
RaceAnswerIdFields == {None, "1"}

\* A request that has ended keeps only its status
Done(status) ==
    [pc |-> "done", user |-> None, value |-> None, kind |-> None, target |-> 0,
     vote |-> NoVote, status |-> status]

\* A request at `pc`, about to read or write the votes of (kind, target)
At(pc, user, value, kind, target, vote) ==
    [pc |-> pc, user |-> user, value |-> value, kind |-> kind, target |-> target,
     vote |-> vote, status |-> None]

\* The request i moves on to `next`
Goto(i, next) ==
    /\ procs' = [procs EXCEPT ![i] = next]
    /\ response' = IF next.pc = "done" THEN next.status ELSE response

\* detail() up to its first read of the store: _new_answer saves the answer
\* of a valid form, then _vote picks the table
StartPost(user, question, text, value, ans_id) ==
    LET na == _new_answer(answers, answerPk, user, question, text)
        next == IF Truthy(ans_id)
                THEN IF ans_id \notin IntLiterals THEN Done("500")
                     ELSE At("get_object_or_404", user, value, "Answer", int(ans_id), NoVote)
                ELSE IF Truthy(value)
                THEN At("get", user, value, "Question", question, NoVote)
                ELSE Done("302 detail")
    IN /\ Len(procs) < MaxRequests
       /\ na.answerPk <= MaxAnswers + 1
       /\ answers' = na.answers
       /\ answerPk' = na.answerPk
       /\ procs' = Append(procs, next)
       /\ response' = IF next.pc = "done" THEN next.status ELSE response
       /\ UNCHANGED <<votes, votePk, viewVars, pageVars>>

\* get_object_or_404(Answer, pk=int(ans_id))
GetAnswerOr404(i) ==
    LET p == procs[i]
    IN /\ p.pc = "get_object_or_404"
       /\ IF \E a \in answers : a.pk = p.target
          THEN Goto(i, [p EXCEPT !.pc = "get"])
          ELSE Goto(i, Done("404"))
       /\ UNCHANGED <<voteVars, viewVars, pageVars>>

\* get_or_create: self.get(**kwargs), first and after an IntegrityError
GetVote(i) ==
    LET p == procs[i]
        got == GetOne(votes[p.kind], votePk[p.kind], p.user, p.target)
    IN /\ p.pc \in {"get", "get_again"}
       /\ IF got.error = ""
          THEN Goto(i, [p EXCEPT !.pc = "_manage_votes", !.vote = got.vote])
          ELSE IF got.error = "DoesNotExist" /\ p.pc = "get"
          THEN Goto(i, [p EXCEPT !.pc = "create"])
          ELSE Goto(i, Done("500"))
       /\ UNCHANGED <<voteVars, viewVars, pageVars>>

\* get_or_create: self.create(**params) in its own atomic block; a created
\* vote is left as it is by _manage_votes
CreateVote(i) ==
    LET p == procs[i]
        made == Create(votes[p.kind], votePk[p.kind], p.user, p.target, p.value)
    IN /\ p.pc = "create"
       /\ (made.pk - votePk[p.kind]) + (votePk["Question"] - 1) + (votePk["Answer"] - 1)
            <= MaxVotes
       /\ votes' = [votes EXCEPT ![p.kind] = made.table]
       /\ votePk' = [votePk EXCEPT ![p.kind] = made.pk]
       /\ IF made.error = "" THEN Goto(i, Done("302 detail"))
          ELSE IF made.error = "IntegrityError" THEN Goto(i, [p EXCEPT !.pc = "get_again"])
          ELSE Goto(i, Done("500"))
       /\ UNCHANGED <<answers, answerPk, viewVars, pageVars>>

\* _manage_votes on a vote that was not created: vote.delete(), or the UPDATE
\* of vote.save() with the row it finds
ManageVote(i) ==
    LET p == procs[i]
        table == votes[p.kind]
        changed == [p.vote EXCEPT !.value = int(p.value)]
    IN /\ p.pc = "_manage_votes"
       /\ IF p.value \notin IntLiterals
          THEN Goto(i, Done("500")) /\ UNCHANGED votes
          ELSE IF p.vote.value = int(p.value)
          THEN /\ votes' = [votes EXCEPT ![p.kind] = Delete(table, p.vote.pk)]
               /\ Goto(i, Done("302 detail"))
          ELSE IF ~\E r \in table : r.pk = p.vote.pk
          THEN Goto(i, [p EXCEPT !.pc = "save_insert", !.vote = changed]) /\ UNCHANGED votes
          ELSE IF UniqueTogether(table, changed)
          THEN /\ votes' = [votes EXCEPT ![p.kind] = Update(table, changed.pk, changed.value)]
               /\ Goto(i, Done("302 detail"))
          ELSE Goto(i, Done("500")) /\ UNCHANGED votes
       /\ UNCHANGED <<answers, answerPk, votePk, viewVars, pageVars>>

\* vote.save() when its UPDATE matched no row: the INSERT under the old key
SaveInsert(i) ==
    LET p == procs[i]
        table == votes[p.kind]
    IN /\ p.pc = "save_insert"
       /\ IF (\A r \in table : r.pk # p.vote.pk) /\ UniqueTogether(table, p.vote)
          THEN /\ votes' = [votes EXCEPT ![p.kind] = table \cup {p.vote}]
               /\ Goto(i, Done("302 detail"))
          ELSE Goto(i, Done("500")) /\ UNCHANGED votes
       /\ UNCHANGED <<answers, answerPk, votePk, viewVars, pageVars>>

RaceNext ==
    \/ \E user \in Users, question \in Questions, text \in TextFields,
          value \in RaceVoteFields, ans_id \in RaceAnswerIdFields :
           StartPost(user, question, text, value, ans_id)
    \/ \E i \in DOMAIN procs : GetAnswerOr404(i)
    \/ \E i \in DOMAIN procs : GetVote(i)
    \/ \E i \in DOMAIN procs : CreateVote(i)
    \/ \E i \in DOMAIN procs : ManageVote(i)
    \/ \E i \in DOMAIN procs : SaveInsert(i)

RaceSpec == Init /\ [][RaceNext]_vars

(***************************************************************************)
(* The vote ledger, request after request (Spec)                           *)
(***************************************************************************)
\* The targets a vote table can reference
Targets(kind) == IF kind = "Question" THEN Questions ELSE {a.pk : a \in answers}

\* The votes a client casts: the 'vote' field and the value it stands for
Casts == {<<"1", UPVOTE>>, <<"-1", DOWNVOTE>>}

\* The request fields that cast `field` on a target: the question of the page,
\* or an answer named by answer_id
AnswerIdOf(kind, target) ==
    IF kind = "Question" THEN {None}
    ELSE {f \in AnswerIdFields \cap IntLiterals : int(f) = target}

\* C1: after any sequence of non-overlapping vote requests, a voter has at
\* most one vote row on a target, whatever values were cast.
C1_AtMostOneVotePerVoterAndTarget ==
    \A kind \in Kinds : \A r1, r2 \in votes[kind] :
        (r1.user = r2.user /\ r1.target = r2.target) => r1 = r2

\* The voter's first row was retracted and the voter's second vote is stored
C1_Witness ==
    \E kind \in Kinds : \E r \in votes[kind] :
        /\ r.pk = 2
        /\ votes[kind] = {r}
        /\ response = "302 detail"

\* C3: a cast of +1 or -1 creates one row with that value when the voter has
\* none on the target, deletes the voter's row when it has that value, and
\* otherwise sets that same row's value, creating no second row.
C3_CastMatchesThreeCases ==
    \A kind \in Kinds, u \in Users, q \in Questions, c \in Casts :
        \A t \in Targets(kind) : \A f \in AnswerIdOf(kind, t) :
            LET mine == {r \in votes[kind] : r.user = u /\ r.target = t}
                after == detail_post(Store, u, IF kind = "Question" THEN t ELSE q,
                                     None, c[1], f)
                fresh == after.votes[kind] \ votes[kind]
                gone == votes[kind] \ after.votes[kind]
            IN /\ after.response = "302 detail"
               /\ \A k \in Kinds \ {kind} : after.votes[k] = votes[k]
               /\ mine = {} =>
                    /\ gone = {}
                    /\ Cardinality(fresh) = 1
                    /\ \A r \in fresh : r.user = u /\ r.target = t /\ r.value = c[2]
               /\ \A r \in mine :
                    /\ r.value = c[2] => (fresh = {} /\ gone = {r})
                    /\ r.value # c[2] =>
                         (gone = {r} /\ fresh = {[r EXCEPT !.value = c[2]]})

\* A voter holds a downvote that the next upvote flips, another voter holds
\* nothing on the same target
C3_Witness ==
    \E kind \in Kinds : \E r \in votes[kind] :
        /\ r.value = DOWNVOTE
        /\ \E u \in Users : \A x \in votes[kind] : x.user # u
        /\ \E f \in AnswerIdOf(kind, r.target), q \in Questions :
             detail_post(Store, r.user, IF kind = "Question" THEN r.target ELSE q,
                         None, "1", f).votes[kind]
                = (votes[kind] \ {r}) \cup {[r EXCEPT !.value = UPVOTE]}

\* C4: when the voter has no vote on the target, casting the same value twice
\* in a row leaves the target's vote rows and its vote_count as they were,
\* and the voter without a vote row on it.
C4_SameCastTwiceIsNoVote ==
    \A kind \in Kinds, u \in Users, q \in Questions, c \in Casts :
        \A t \in Targets(kind) : \A f \in AnswerIdOf(kind, t) :
            LET page == IF kind = "Question" THEN t ELSE q
                once == detail_post(Store, u, page, None, c[1], f)
                twice == detail_post(once, u, page, None, c[1], f)
            IN (\A r \in votes[kind] : ~(r.user = u /\ r.target = t)) =>
                /\ VotesOf(twice.votes[kind], t) = VotesOf(votes[kind], t)
                /\ vote_count(VotesOf(twice.votes[kind], t))
                     = vote_count(VotesOf(votes[kind], t))
                /\ \A r \in twice.votes[kind] : ~(r.user = u /\ r.target = t)
                /\ once.votes[kind] # votes[kind]
                /\ twice.response = "302 detail"

\* Another voter's vote is on the target, and the pair leaves it alone
C4_Witness ==
    \E kind \in Kinds, u \in Users : \E r \in votes[kind] :
        /\ r.user # u
        /\ \A x \in votes[kind] : x.user # u
        /\ \E f \in AnswerIdOf(kind, r.target), q \in Questions :
             LET page == IF kind = "Question" THEN r.target ELSE q
                 once == detail_post(Store, u, page, None, "-1", f)
             IN /\ Cardinality(VotesOf(once.votes[kind], r.target)) = 2
                /\ detail_post(once, u, page, None, "-1", f).votes = votes

\* The values a vote row can hold, as int() reads them from a request
StoredValues == {int(f) : f \in IntLiterals}

RECURSIVE WeightedCount(_, _)
\* The values, each times the number of rows that hold it, added up
WeightedCount(rows, values) ==
    IF values = {} THEN 0
    ELSE LET v == CHOOSE x \in values : TRUE
         IN v * Cardinality({r \in rows : r.value = v})
              + WeightedCount(rows, values \ {v})

\* C5: vote_count of a Question or an Answer is the exact integer sum of the
\* values of the vote rows that reference it, and 0 when none does.
C5_VoteCountIsSumOfValues ==
    \A kind \in Kinds : \A t \in Targets(kind) :
        LET rows == VotesOf(votes[kind], t)
        IN /\ \A r \in rows : r.value \in StoredValues
           /\ vote_count(rows) = WeightedCount(rows, StoredValues)
           /\ rows = {} => vote_count(rows) = 0

\* Two voters, one up and one down, on one target
C5_Witness ==
    \E kind \in Kinds : \E t \in Targets(kind) :
        /\ \E r1, r2 \in VotesOf(votes[kind], t) :
             r1.value = UPVOTE /\ r2.value = DOWNVOTE
        /\ vote_count(VotesOf(votes[kind], t)) = 0

\* C6: every stored vote row has value +1 or -1, whatever the 'vote' field
\* of the request was.
C6_StoredValuesAreUpOrDown ==
    \A kind \in Kinds : \A r \in votes[kind] : r.value \in {UPVOTE, DOWNVOTE}

(***************************************************************************)
(* The view tracker, request after request (ViewSpec)                      *)
(***************************************************************************)
\* A viewer identity: a user, or the IP address of an anonymous client
IsViewer(id) == id.value # None

\* The rows of a viewer for a question
ViewsBy(id, question) ==
    {v \in views : /\ v.question = question
                   /\ \/ (id.field = "user" /\ v.user = id.value)
                      \/ (id.field = "ip_address" /\ v.ip_address = id.value)}

\* C8: a call of record_view by a viewer on a question inserts one View row
\* iff the viewer has no row for the question or the viewer's latest row for
\* it is more than 1 hour (3600 s) old; an hour sharp or less is a no-op.
\* So the stored rows of one viewer for one question are more than 1 hour
\* apart, pair by pair.
C8_ViewInsertedIffNoneOrOverAnHour ==
    /\ \A user \in Users \cup {Anonymous}, xff \in ForwardedFor, addr \in RemoteAddr,
          question \in Questions :
           LET id == Identifier(user, xff, addr)
               mine == ViewsBy(id, question)
               due == \/ mine = {}
                      \/ \A v \in mine : now - v.view_time > 3600
               after == _manage_views(views, viewPk, now, user, xff, addr, question)
           IN IsViewer(id) =>
               /\ views \subseteq after.views
               /\ due => /\ Cardinality(after.views \ views) = 1
                          /\ \A v \in after.views \ views :
                               /\ v \in {w \in after.views : w.question = question}
                               /\ v.view_time = now
                               /\ IF user = Anonymous
                                  THEN v.user = None /\ v.ip_address = id.value
                                  ELSE v.user = user /\ v.ip_address = None
               /\ ~due => after.views = views
    /\ \A v, w \in views :
           ( /\ v # w
             /\ v.question = w.question
             /\ v.user = w.user
             /\ v.ip_address = w.ip_address
             /\ (v.user # None \/ v.ip_address # None)
             /\ v.view_time <= w.view_time )
           => w.view_time - v.view_time > 3600

\* A viewer's two rows for a question are 3 hours apart, nothing in between,
\* and another viewer's only row is an hour old to the second: a view by that
\* one now is a no-op
C8_Witness ==
    \E v, w, x \in views :
        /\ v.user # None /\ v.user = w.user /\ v.question = w.question
        /\ w.view_time - v.view_time = 10800
        /\ Cardinality({y \in views : y.user = v.user}) = 2
        /\ x.ip_address # None
        /\ Cardinality({y \in views : y.ip_address = x.ip_address}) = 1
        /\ now - x.view_time = 3600

\* C9: every stored View row has a user or an IP address.
C9_EveryViewIdentifiesItsViewer ==
    \A v \in views : clean(v)

\* C10: a request never deletes or alters a View row; the view count of a
\* question never decreases and grows by at most 1 per request.
C10_ViewsOnlyGrowOneAtATime ==
    [][ /\ views \subseteq views'
        /\ \A q \in Questions :
             view_count(views', q) - view_count(views, q) \in {0, 1} ]_vars

\* Views of two viewers are stored, one of them has come back after an hour
C10_Witness ==
    \E q \in Questions :
        /\ view_count(views, q) >= 3
        /\ \E v, w \in views : v # w /\ v.user = w.user /\ v.ip_address = w.ip_address
        /\ viewPk = view_count(views, q) + 1
        /\ response = "200"

(***************************************************************************)
(* The vote ledger under overlapping requests (RaceSpec)                   *)
(***************************************************************************)
\* C2: however the store reads and writes of the vote requests of one voter
\* on one target interleave, the voter never has two vote rows on the
\* target, for equal and for opposite cast values.
C2_NoTwoRowsUnderInterleaving ==
    \A kind \in Kinds, u \in Users :
        \A t \in {r.target : r \in votes[kind]} :
            Cardinality({r \in votes[kind] : r.user = u /\ r.target = t}) <= 1

\* C7: no vote request ends in a server error, whatever the interleaving
\* and whatever requests came before it.
C7_NoVoteRequestEndsInError ==
    \A i \in DOMAIN procs : procs[i].status # "500"

(***************************************************************************)
(* The listings: questions, tagged questions, tags                         *)
(***************************************************************************)
MaxListed == 3      \* questions, and tags, in a listed store

\* request.GET.get("tab") of a question listing and of the tag listing: None
\* when the parameter is absent
TabFields ==
    {None, "", "unanswered", "Unanswered", "UNANSWERED",
     "popular", "POPULAR", "newest", "invalid"}
TagTabFields ==
    {None, "", "popular", "Popular", "new", "New", "name", "NAME", "invalid"}

\* str.lower that lowers a leading capital only
lower_leading_capital_only(s) ==
    CASE s = "Unanswered" -> "unanswered"
      [] s = "Popular" -> "popular"
      [] s = "Newest" -> "newest"
      [] s = "New" -> "new"
      [] OTHER -> s

\* str.lower, on the tabs above
lower(s) ==
    CASE s \in {"Unanswered", "UNANSWERED"} -> "unanswered"
      [] s \in {"Popular", "POPULAR"} -> "popular"
      [] s = "Newest" -> "newest"
      [] s = "New" -> "new"
      [] s = "NAME" -> "name"
      [] OTHER -> s

\* The primary keys, ascending: the order of a query without order_by
RECURSIVE ByPk(_)
ByPk(pks) ==
    IF pks = {} THEN <<>>
    ELSE LET first == CHOOSE x \in pks : \A y \in pks : x <= y
         IN <<first>> \o ByPk(pks \ {first})

\* The elements of seq that satisfy the function keep, in the order of seq
RECURSIVE Comprehension(_, _)
Comprehension(seq, keep) ==
    IF seq = <<>> THEN <<>>
    ELSE (IF keep[Head(seq)] THEN <<Head(seq)>> ELSE <<>>)
             \o Comprehension(Tail(seq), keep)

Reversed(seq) == [i \in 1..Len(seq) |-> seq[Len(seq) + 1 - i]]

\* x is put in front of the first element of the sorted seq that does not
\* have to come before it
Insert(x, seq, key, reverse) ==
    LET before == {i \in 1..Len(seq) : IF reverse THEN key[seq[i]] > key[x]
                                                  ELSE key[seq[i]] < key[x]}
        n == Cardinality(before)
    IN SubSeq(seq, 1, n) \o <<x>> \o SubSeq(seq, n + 1, Len(seq))

\* Python's sorted(seq, key=..., reverse=...) the other way round: sorted
\* ascending, then reversed, so that equal keys swap their order
RECURSIVE sorted_ascending_then_reversed(_, _, _)
sorted_ascending_then_reversed(seq, key, reverse) ==
    IF ~reverse
    THEN (IF seq = <<>> THEN <<>>
          ELSE Insert(Head(seq), sorted_ascending_then_reversed(Tail(seq), key, FALSE),
                      key, FALSE))
    ELSE Reversed(sorted_ascending_then_reversed(seq, key, FALSE))

\* Python's sorted(seq, key=..., reverse=...): stable in both directions
RECURSIVE sorted(_, _, _)
sorted(seq, key, reverse) ==
    IF seq = <<>> THEN <<>>
    ELSE Insert(Head(seq), sorted(Tail(seq), key, reverse), key, reverse)

\* QuerySet.order_by on one column; rows with equal keys come in pk order
order_by(rows, key, reverse) == sorted(ByPk({r.pk : r \in rows}), key, reverse)

\* question.answers.all().exists()
answers_exist(question) == \E a \in answers : a.question = question

\* _get_questions_context whose fallback keeps the tab it was given
_get_questions_context_keeping_tab(tab_field, all_questions) ==
    LET tab == Or(tab_field, "Newest")
        pks == {all_questions[i] : i \in 1..Len(all_questions)}
    IN IF lower(tab) = "unanswered"
       THEN [all |-> Comprehension(all_questions,
                                   [q \in pks |-> ~answers_exist(q)]),
             tab |-> tab]
       ELSE IF lower(tab) = "popular"
       THEN [all |-> sorted(all_questions,
                            [q \in pks |-> view_count(views, q)], TRUE),
             tab |-> tab]
       ELSE [all |-> all_questions, tab |-> tab]

\* _get_questions_context(request, all_questions)
_get_questions_context(tab_field, all_questions) ==
    LET tab == Or(tab_field, "Newest")
        pks == {all_questions[i] : i \in 1..Len(all_questions)}
    IN IF lower(tab) = "unanswered"
       THEN [all |-> Comprehension(all_questions,
                                   [q \in pks |-> ~answers_exist(q)]),
             tab |-> tab]
       ELSE IF lower(tab) = "popular"
       THEN [all |-> sorted(all_questions,
                            [q \in pks |-> view_count(views, q)], TRUE),
             tab |-> tab]
       ELSE [all |-> all_questions, tab |-> "Newest"]

\* Question.objects.order_by("-pub_date")
AllQuestions == order_by(questions, [pk \in {q.pk : q \in questions} |->
                            (CHOOSE q \in questions : q.pk = pk).pub_date], TRUE)

\* Question.objects.filter(tags=tag).order_by("-pub_date")
TaggedQuestions(tag) ==
    LET rows == {q \in questions : q.pk \in tag.questions}
    IN order_by(rows, [pk \in {q.pk : q \in rows} |->
                          (CHOOSE q \in rows : q.pk = pk).pub_date], TRUE)

\* A rendered listing: the page, the request's 'tab' parameter and tag (the
\* set of its pk; empty without a tag), and the context handed to the template
Context(page, field, tag, listing) ==
    [page |-> page, field |-> field, tag |-> tag,
     all |-> listing.all, tab |-> listing.tab]

\* questions(request)
list_questions(tab_field) == _get_questions_context(tab_field, AllQuestions)

\* tagged_questions(request, tag_id), for a tag that exists
list_tagged_questions(tag, tab_field) ==
    _get_questions_context(tab_field, TaggedQuestions(tag))

\* The users whose views a listed store holds, in the order they viewed
ListViewers == <<"u1", "u2">>
TagIds == {1, 2}

\* A store of up to MaxListed questions asked one after the other, some
\* answered, all or all but the newest tagged with the one tag, each viewed
\* up to twice
ListInit ==
    \E n \in 0..MaxListed :
      \E answered \in SUBSET (1..n), untagged \in {0, n},
         seen \in [1..n -> 0..Len(ListViewers)] :
        /\ questions = {QuestionRow(q, "u1", "some text", q, q) : q \in 1..n}
        /\ answers = {[pk |-> q, author |-> "u2", question |-> q,
                       text |-> "some text"] : q \in answered}
        /\ answerPk = n + 1
        /\ views = {[pk |-> (q - 1) * Len(ListViewers) + k, user |-> ListViewers[k],
                     ip_address |-> None, question |-> q, view_time |-> 0] :
                       <<q, k>> \in {qk \in (1..n) \X (1..Len(ListViewers)) :
                                        qk[2] <= seen[qk[1]]}}
        /\ viewPk = n * Len(ListViewers) + 1
        /\ tags = {[pk |-> 1, text |-> "django", creation_date |-> 0,
                    questions |-> (1..n) \ {untagged}]}
        /\ votes = [k \in Kinds |-> {}]
        /\ votePk = [k \in Kinds |-> 1]
        /\ now = 0
        /\ response = None
        /\ procs = <<>>
        /\ context = NoContext
        /\ request = NoRequest

\* GET /questions/?tab=...
QuestionsGet(tab_field) ==
    /\ context' = Context("questions", tab_field, {}, list_questions(tab_field))
    /\ response' = "200"
    /\ UNCHANGED <<voteVars, viewVars, procs, questions, tags, request>>

\* GET /questions/tagged/<tag_id>?tab=...
TaggedQuestionsGet(tag_id, tab_field) ==
    /\ IF \E tag \in tags : tag.pk = tag_id
       THEN LET tag == CHOOSE t \in tags : t.pk = tag_id
            IN /\ context' = Context("tagged-questions", tab_field, {tag.pk},
                                      list_tagged_questions(tag, tab_field))
               /\ response' = "200"
       ELSE /\ context' = NoContext
            /\ response' = "404"
    /\ UNCHANGED <<voteVars, viewVars, procs, questions, tags, request>>

ListNext ==
    \/ \E tab_field \in TabFields : QuestionsGet(tab_field)
    \/ \E tag_id \in TagIds, tab_field \in TabFields :
           TaggedQuestionsGet(tag_id, tab_field)

ListSpec == ListInit /\ [][ListNext]_vars

(***************************************************************************)
(* Claims about the listings                                               *)
(***************************************************************************)
Elems(seq) == {seq[i] : i \in 1..Len(seq)}
Pos(seq, x) == CHOOSE i \in 1..Len(seq) : seq[i] = x
NoDuplicates(seq) == Len(seq) = Cardinality(Elems(seq))

\* The elements of part come in the order they have in whole
SameRelativeOrder(part, whole) ==
    \A i, j \in 1..Len(part) : i < j => Pos(whole, part[i]) < Pos(whole, part[j])

PubDate(pk) == (CHOOSE q \in questions : q.pk = pk).pub_date
NewestFirst(seq) ==
    \A i, j \in 1..Len(seq) : i < j => PubDate(seq[i]) >= PubDate(seq[j])

\* The base collections of the two question listings
Bases ==
    {<<{}, AllQuestions>>} \cup {<<{t.pk}, TaggedQuestions(t)>> : t \in tags}
BaseOf(tag) == (CHOOSE b \in Bases : b[1] = tag)[2]
Listing(tag, tab_field) == _get_questions_context(tab_field, BaseOf(tag))
QuestionPages == {"questions", "tagged-questions"}

UnansweredTabs == {"unanswered", "Unanswered", "UNANSWERED"}
PopularTabs == {"popular", "POPULAR"}
Unanswered(seq) == {q \in Elems(seq) : \A a \in answers : a.question # q}

\* What C11 asks of a listing of base under an 'unanswered' tab
IsUnansweredOf(all, base) ==
    /\ Elems(all) = Unanswered(base)
    /\ NoDuplicates(all)
    /\ SameRelativeOrder(all, base)

\* C11: over a newest-first base collection, a question listing (all
\* questions or tagged questions) rendered for the tab 'unanswered' in any
\* letter case holds exactly the questions without an answer, in the relative
\* order they have in the base collection.
C11_UnansweredKeepsExactlyTheUnanswered ==
    (context.page \in QuestionPages /\ context.field \in UnansweredTabs)
        => /\ NewestFirst(BaseOf(context.tag))
           /\ IsUnansweredOf(context.all, BaseOf(context.tag))

\* A tagged listing under 'UNANSWERED' dropped an answered question and
\* kept two, newest first
C11_Witness ==
    /\ context.page = "tagged-questions"
    /\ context.field = "UNANSWERED"
    /\ Len(context.all) = 2
    /\ Len(BaseOf(context.tag)) = 3
    /\ BaseOf(context.tag)[2] \notin Elems(context.all)

\* What C12 asks of a listing of base under a 'popular' tab
IsPopularOf(all, base) ==
    /\ Len(all) = Len(base)
    /\ Elems(all) = Elems(base)
    /\ NoDuplicates(all)
    /\ \A i, j \in 1..Len(all) :
           i < j => /\ view_count(views, all[i]) >= view_count(views, all[j])
                    /\ view_count(views, all[i]) = view_count(views, all[j])
                           => Pos(base, all[i]) < Pos(base, all[j])

\* C12: with the tab 'popular' in any letter case a question listing
\* returns a permutation of the whole base collection in descending order
\* of view count, and questions with equal view counts keep the relative
\* order they have in the base collection.
C12_PopularIsAStableDescendingSort ==
    (context.page \in QuestionPages /\ context.field \in PopularTabs)
        => IsPopularOf(context.all, BaseOf(context.tag))

\* 'POPULAR' moved the oldest of three questions to the front and left the
\* other two, equally viewed, in base order
C12_Witness ==
    /\ context.page = "questions"
    /\ context.field = "POPULAR"
    /\ Len(context.all) = 3
    /\ context.all[1] = BaseOf(context.tag)[3]
    /\ view_count(views, context.all[2]) = view_count(views, context.all[3])

NewestTabs == TabFields \ (UnansweredTabs \cup PopularTabs)

\* C13: for a missing tab, an empty tab, or a tab that is neither
\* 'unanswered' nor 'popular' in any letter case, a question listing returns
\* the base collection as it is, with the tab "Newest".
C13_OtherTabsReturnTheBaseAsNewest ==
    (context.page \in QuestionPages /\ context.field \in NewestTabs)
        => /\ context.all = BaseOf(context.tag)
           /\ context.tab = "Newest"

\* The tab 'invalid' returned three questions as they were, where
\* 'unanswered' and 'popular' would both have changed the listing
C13_Witness ==
    /\ context.page = "questions"
    /\ context.field = "invalid"
    /\ context.tab = "Newest"
    /\ Len(context.all) = 3
    /\ Listing(context.tag, "popular").all # context.all
    /\ Listing(context.tag, "unanswered").all # context.all

(***************************************************************************)
(* The tag listing                                                         *)
(***************************************************************************)
\* The texts tags can have, in the order the database collates them
TagTexts == <<"django", "python", "tla", "web">>
collate(text) == CHOOSE i \in 1..Len(TagTexts) : TagTexts[i] = text
TagOf(pk) == CHOOSE t \in tags : t.pk = pk

\* tags(request)
list_tags(tab_field) ==
    LET pks == {t.pk : t \in tags}
        all_tags == ByPk(pks)
        tab == Or(tab_field, "Popular")
    IN IF lower(tab) = "popular"
       THEN [all |-> sorted(all_tags,
                            [pk \in pks |-> Cardinality(TagOf(pk).questions)], TRUE),
             tab |-> tab]
       ELSE IF lower(tab) = "new"
       THEN [all |-> order_by(tags, [pk \in pks |-> TagOf(pk).creation_date], TRUE),
             tab |-> tab]
       ELSE IF lower(tab) = "name"
       THEN [all |-> order_by(tags, [pk \in pks |-> collate(TagOf(pk).text)], FALSE),
             tab |-> tab]
       ELSE [all |-> all_tags, tab |-> "Popular"]

\* The questions tags are attached to in a store of tags
TaggedIds == {1, 2}

\* A store of up to MaxListed tags created one after the other, each with a
\* text of its own and attached to any of two questions
TagInit ==
    \E n \in 0..MaxListed :
      \E texts \in {f \in [1..n -> 1..Len(TagTexts)] :
                       \A i, j \in 1..n : f[i] = f[j] => i = j},
         attached \in [1..n -> SUBSET TaggedIds] :
        /\ tags = {[pk |-> t, text |-> TagTexts[texts[t]], creation_date |-> t,
                    questions |-> attached[t]] : t \in 1..n}
        /\ questions = {QuestionRow(q, "u1", "some text", q, q) : q \in TaggedIds}
        /\ answers = {}
        /\ answerPk = 1
        /\ votes = [k \in Kinds |-> {}]
        /\ votePk = [k \in Kinds |-> 1]
        /\ views = {}
        /\ viewPk = 1
        /\ now = 0
        /\ response = None
        /\ procs = <<>>
        /\ context = NoContext
        /\ request = NoRequest

\* GET /tags/?tab=...
TagsGet(tab_field) ==
    /\ context' = Context("tags", tab_field, {}, list_tags(tab_field))
    /\ response' = "200"
    /\ UNCHANGED <<voteVars, viewVars, procs, questions, tags, request>>

TagNext == \E tab_field \in TagTabFields : TagsGet(tab_field)

TagSpec == TagInit /\ [][TagNext]_vars

\* The tab a listing page returns for a 'tab' parameter
ReturnedTab(page, tag, tab_field) ==
    IF page = "tags" THEN list_tags(tab_field).tab
    ELSE Listing(tag, tab_field).tab

\* The 'tab' parameters a page can be sent
FieldsOf(page) == IF page = "tags" THEN TagTabFields ELSE TabFields

\* C14: the tab a listing returns depends only on the listing mode that was
\* resolved: a request whose tab differs from the rendered request's tab
\* only in letter case is returned the identical tab string.
C14_ReturnedTabIgnoresLetterCase ==
    (context.page # None /\ context.field # None)
        => \A other \in FieldsOf(context.page) \ {None} :
               lower(other) = lower(context.field)
                   => ReturnedTab(context.page, context.tag, other) = context.tab

\* The mode the tag listing resolves a 'tab' parameter to
TagMode(tab_field) ==
    IF tab_field \in {"new", "New"} THEN "new"
    ELSE IF tab_field \in {"name", "NAME"} THEN "name"
    ELSE "popular"

\* all is a permutation of every tag's pk
IsPermutationOfTags(all) ==
    /\ Elems(all) = {t.pk : t \in tags}
    /\ NoDuplicates(all)

\* C15: the tag listing returns a permutation of all tags in the order of
\* the resolved tab: for 'popular', a missing and an unrecognized tab by
\* number of questions descending with ties in base (pk) order, for 'new'
\* by creation date descending, for 'name' by text ascending.
C15_TagListingOrderedByResolvedKey ==
    context.page = "tags"
        => /\ IsPermutationOfTags(context.all)
           /\ \A i, j \in 1..Len(context.all) :
                  i < j =>
                    LET a == TagOf(context.all[i])
                        b == TagOf(context.all[j])
                    IN CASE TagMode(context.field) = "new" ->
                              a.creation_date >= b.creation_date
                         [] TagMode(context.field) = "name" ->
                              collate(a.text) < collate(b.text)
                         [] OTHER ->
                              /\ Cardinality(a.questions) >= Cardinality(b.questions)
                              /\ Cardinality(a.questions) = Cardinality(b.questions)
                                     => a.pk < b.pk

(***************************************************************************)
(* Question.is_edited                                                      *)
(***************************************************************************)
MicrosPerSecond == 1000000
SecondsPerDay == 86400

\* datetime - datetime: a timedelta, normalised to days, seconds (0..86399)
\* and microseconds (0..999999); micros is the difference in microseconds
timedelta(micros) ==
    LET secs == micros \div MicrosPerSecond
    IN [days |-> secs \div SecondsPerDay,
        seconds |-> secs % SecondsPerDay,
        microseconds |-> micros % MicrosPerSecond]

\* timedelta >= timedelta: the three fields compared in order
GreaterOrEqual(d, e) ==
    \/ d.days > e.days
    \/ d.days = e.days /\ d.seconds > e.seconds
    \/ d.days = e.days /\ d.seconds = e.seconds /\ d.microseconds >= e.microseconds

\* is_edited with a strict comparison
is_edited_when_over_a_second(question) ==
    ~GreaterOrEqual(timedelta(MicrosPerSecond),
                    timedelta(question.mod_date - question.pub_date))

\* Question.is_edited
is_edited(question) ==
    GreaterOrEqual(timedelta(question.mod_date - question.pub_date),
                   timedelta(MicrosPerSecond))

\* The timestamps of a question, in microseconds
Stamps ==
    {0, 1, 999999, 1000000, 1000001, 1999999, 2000000,
     600000000, 600999999, 601000000}

\* One question with any publication and modification timestamp
EditedInit ==
    \E pub_date \in Stamps, mod_date \in Stamps :
        /\ questions = {QuestionRow(1, "u1", "some text", pub_date, mod_date)}
        /\ tags = {}
        /\ answers = {}
        /\ answerPk = 1
        /\ votes = [k \in Kinds |-> {}]
        /\ votePk = [k \in Kinds |-> 1]
        /\ views = {}
        /\ viewPk = 1
        /\ now = 0
        /\ response = None
        /\ procs = <<>>
        /\ context = NoContext
        /\ request = NoRequest

\* The detail page shows whether the question was edited
RenderIsEdited(question) ==
    /\ context' = [page |-> "detail", question |-> question.pk,
                   is_edited |-> is_edited(question)]
    /\ response' = "200"
    /\ UNCHANGED <<voteVars, viewVars, procs, questions, tags, request>>

EditedNext == \E question \in questions : RenderIsEdited(question)

EditedSpec == EditedInit /\ [][EditedNext]_vars

\* C19: is_edited is true iff the modification timestamp is later than the
\* publication timestamp by one second (1,000,000 microseconds) or more.
C19_IsEditedIffAtLeastOneSecondLater ==
    /\ \A q \in questions :
           is_edited(q) <=> (q.mod_date - q.pub_date >= 1000000)
    /\ context.page = "detail"
           => \A q \in questions :
                  q.pk = context.question
                      => (context.is_edited <=> (q.mod_date - q.pub_date >= 1000000))

\* A question modified exactly one second after publication was shown as
\* edited
C19_Witness ==
    /\ context.page = "detail"
    /\ context.is_edited
    /\ \E q \in questions : q.mod_date - q.pub_date = 1000000

\* A question modified 999,999 microseconds after publication was shown as
\* not edited
C19_WitnessUnderASecond ==
    /\ context.page = "detail"
    /\ ~context.is_edited
    /\ \E q \in questions : q.mod_date - q.pub_date = 999999

(***************************************************************************)
(* Claims about the detail page's POST as a whole                          *)
(***************************************************************************)
\* C20: a detail-page POST that ends in NotFound because its answer_id
\* names no Answer changes nothing in the store: no vote row is created,
\* updated or deleted and no Answer is created, even when the POST carries
\* a valid answer text.
C20_NotFoundPostChangesNothing ==
    [][response' = "404" => (answers' = answers /\ votes' = votes)]_vars

(***************************************************************************)
(* Editing and deleting content                                            *)
(***************************************************************************)
Methods == {"GET", "POST"}
EditedText == "edited text"

\* The forms' text fields, and POST['next'] of a deletion
EditFields == {None, EditedText}
DetailUrl == "http://testserver/questions/1/"
NextFields == {None, "None", DetailUrl, "/"}

\* The request handled last
Request(view, user, method, id, next) ==
    [view |-> view, user |-> user, method |-> method, id |-> id, next |-> next]

\* _validate_owner that lets every user through
_validate_owner_letting_all_through(user, content) == TRUE

\* _validate_owner(request, content): TRUE when no Http404 is raised
_validate_owner(user, content) == user = content.author

\* redirect(*url): the response; resolve_url(None) raises
redirect(to) ==
    CASE to = None -> "500"
      [] to = "qnas:questions" -> "302 questions"
      [] to = "qnas:detail" -> "302 detail"
      [] OTHER -> to

\* The redirect of _del_content that compares 'next' with "None" only
del_redirect_ignoring_forbidden_url(next_url, default_redirect_url, forbidden_url) ==
    IF next_url = "None" THEN redirect(default_redirect_url)
    ELSE redirect(next_url)

\* The redirect of _del_content after the deletion
del_redirect(next_url, default_redirect_url, forbidden_url) ==
    IF next_url \in {"None", forbidden_url}
    THEN redirect(default_redirect_url)
    ELSE redirect(next_url)

\* on_delete=CASCADE that leaves the rows of table that point to gone rows
cascade_leaving_rows(table, gone) == table

\* on_delete=CASCADE: the vote rows of table without those on gone targets
cascade(table, gone) == {v \in table : v.target \notin gone}

\* question.delete(): the store without the question and what it owns
delete_question_rows(question) ==
    LET gone == {a.pk : a \in {r \in answers : r.question = question.pk}}
    IN /\ questions' = questions \ {question}
       /\ answers' = {a \in answers : a.question # question.pk}
       /\ votes' = [Question |-> cascade(votes["Question"], {question.pk}),
                    Answer |-> cascade(votes["Answer"], gone)]
       /\ views' = {v \in views : v.question # question.pk}

\* answer.delete(): the store without the answer and its votes
delete_answer_rows(answer) ==
    /\ answers' = answers \ {answer}
    /\ votes' = [votes EXCEPT !["Answer"] = cascade(votes["Answer"], {answer.pk})]
    /\ UNCHANGED <<questions, views>>

\* What content.delete() returns: the rows it deleted, per model
NoneDeleted ==
    [Question |-> 0, Answer |-> 0, QuestionVote |-> 0, AnswerVote |-> 0, View |-> 0]

deleted_with_question(question) ==
    LET gone == {a.pk : a \in {r \in answers : r.question = question.pk}}
    IN [Question |-> 1,
        Answer |-> Cardinality(gone),
        QuestionVote |-> Cardinality(votes["Question"]
                                       \ cascade(votes["Question"], {question.pk})),
        AnswerVote |-> Cardinality(votes["Answer"] \ cascade(votes["Answer"], gone)),
        View |-> Cardinality({v \in views : v.question = question.pk})]

deleted_with_answer(answer) ==
    [NoneDeleted EXCEPT
        !.Answer = 1,
        !.AnswerVote = Cardinality(votes["Answer"]
                                     \ cascade(votes["Answer"], {answer.pk}))]

\* A handled deletion request, with what its content.delete() returned
DeleteRequest(view, user, method, id, next, deleted) ==
    [view |-> view, user |-> user, method |-> method, id |-> id, next |-> next,
     deleted |-> deleted]

\* The request gets as far as content.delete()
Deletes(user, found, method) ==
    /\ user # Anonymous
    /\ method = "POST"
    /\ \E content \in found : _validate_owner(user, content)

\* get_object_or_404: the rows with this pk (none: Http404)
RowsWithPk(rows, pk) == {r \in rows : r.pk = pk}

\* A request that changes nothing in the store
Respond(status) ==
    /\ response' = status
    /\ UNCHANGED <<voteVars, viewVars, procs, questions, tags, context>>

\* POST /questions/<question_id>/ on a store whose question may be gone
SiteDetailPost(user, question_id, text, value, ans_id) ==
    /\ request' = Request("detail", user, "POST", question_id, None)
    /\ IF RowsWithPk(questions, question_id) = {}
       THEN Respond("404")
       ELSE LET res == detail_post(Store, user, question_id, text, value, ans_id)
            IN /\ res.answerPk <= MaxAnswers + 1
               /\ (res.votePk["Question"] - 1) + (res.votePk["Answer"] - 1) <= MaxVotes
               /\ answers' = res.answers
               /\ answerPk' = res.answerPk
               /\ votes' = res.votes
               /\ votePk' = res.votePk
               /\ response' = res.response
               /\ UNCHANGED <<viewVars, procs, questions, tags, context>>

\* GET /questions/<question_id>/ on a store whose question may be gone
SiteDetailGet(user, question_id) ==
    /\ request' = Request("detail", user, "GET", question_id, None)
    /\ IF RowsWithPk(questions, question_id) = {}
       THEN Respond("404")
       ELSE LET res == _manage_views(views, viewPk, now, user, <<"">>, None, question_id)
            IN /\ views' = res.views
               /\ viewPk' = res.viewPk
               /\ response' = "200"
               /\ UNCHANGED <<voteVars, now, procs, questions, tags, context>>

\* edit_question(request, question_id)
EditQuestion(user, question_id, method, body) ==
    /\ request' = Request("edit_question", user, method, question_id, None)
    /\ IF user = Anonymous THEN Respond("302 login")
       ELSE IF RowsWithPk(questions, question_id) = {} THEN Respond("404")
       ELSE LET question == CHOOSE q \in questions : q.pk = question_id
            IN IF ~_validate_owner(user, question) THEN Respond("404")
               ELSE IF method = "POST" /\ is_valid(body)
               THEN /\ questions' = (questions \ {question}) \cup
                                      {[question EXCEPT !.body = body, !.mod_date = now]}
                    /\ response' = "302 detail"
                    /\ UNCHANGED <<voteVars, viewVars, procs, tags, context>>
               ELSE Respond("200")

\* edit_answer(request, answer_id)
EditAnswer(user, answer_id, method, text) ==
    /\ request' = Request("edit_answer", user, method, answer_id, None)
    /\ IF user = Anonymous THEN Respond("302 login")
       ELSE IF RowsWithPk(answers, answer_id) = {} THEN Respond("404")
       ELSE LET answer == CHOOSE a \in answers : a.pk = answer_id
            IN IF ~_validate_owner(user, answer) THEN Respond("404")
               ELSE IF method = "POST" /\ is_valid(text)
               THEN /\ answers' = (answers \ {answer}) \cup {[answer EXCEPT !.text = text]}
                    /\ response' = "302 detail"
                    /\ UNCHANGED <<answerPk, votes, votePk, viewVars, procs,
                                   questions, tags, context>>
               ELSE Respond("200")

\* _del_content(request, content, *default_redirect_url, forbidden_url) for
\* a question: delete_question(request, question_id)
DeleteQuestion(user, question_id, method, next_url) ==
    /\ request' = DeleteRequest("delete_question", user, method, question_id, next_url,
                                IF Deletes(user, RowsWithPk(questions, question_id), method)
                                THEN deleted_with_question(
                                         CHOOSE q \in questions : q.pk = question_id)
                                ELSE NoneDeleted)
    /\ IF user = Anonymous THEN Respond("302 login")
       ELSE IF RowsWithPk(questions, question_id) = {} THEN Respond("404")
       ELSE LET question == CHOOSE q \in questions : q.pk = question_id
            IN IF ~_validate_owner(user, question) THEN Respond("404")
               ELSE IF method = "POST"
               THEN /\ delete_question_rows(question)
                    /\ response' = del_redirect(next_url, "qnas:questions", DetailUrl)
                    /\ UNCHANGED <<answerPk, votePk, viewPk, now, procs, tags, context>>
               ELSE Respond("200")

\* delete_answer(request, answer_id)
DeleteAnswer(user, answer_id, method, next_url) ==
    /\ request' = DeleteRequest("delete_answer", user, method, answer_id, next_url,
                                IF Deletes(user, RowsWithPk(answers, answer_id), method)
                                THEN deleted_with_answer(
                                         CHOOSE a \in answers : a.pk = answer_id)
                                ELSE NoneDeleted)
    /\ IF user = Anonymous THEN Respond("302 login")
       ELSE IF RowsWithPk(answers, answer_id) = {} THEN Respond("404")
       ELSE LET answer == CHOOSE a \in answers : a.pk = answer_id
            IN IF ~_validate_owner(user, answer) THEN Respond("404")
               ELSE IF method = "POST"
               THEN /\ delete_answer_rows(answer)
                    /\ response' = del_redirect(next_url, "qnas:detail", None)
                    /\ UNCHANGED <<answerPk, votePk, viewPk, now, procs, tags, context>>
               ELSE Respond("200")

\* The votes the site's clients send, and the answers' pks
SiteVoteFields == {None, "1"}
AnswerIds == 1..MaxAnswers

\* Creating, voting, viewing and deleting: every deletion is a POST with the
\* confirmation page's next=None
SiteNext ==
    \/ \E user \in Users \cup {Anonymous}, question_id \in Questions,
          text \in TextFields,
          value \in SiteVoteFields, ans_id \in RaceAnswerIdFields :
           SiteDetailPost(user, question_id, text, value, ans_id)
    \/ \E user \in Users, question_id \in Questions :
           SiteDetailGet(user, question_id)
    \/ \E user \in Users, question_id \in Questions :
           DeleteQuestion(user, question_id, "POST", "None")
    \/ \E user \in Users, answer_id \in AnswerIds :
           DeleteAnswer(user, answer_id, "POST", "None")

SiteSpec == Init /\ [][SiteNext]_vars

\* What a request can carry: a GET has no form fields
Forms(method, fields) == IF method = "GET" THEN {None} ELSE fields

\* Answering, editing and deleting, by the author, by another user and by
\* an anonymous client
OwnerNext ==
    \/ \E user \in Users, question_id \in Questions, value \in SiteVoteFields :
           SiteDetailPost(user, question_id, "some text", value, None)
    \/ \E user \in Users \cup {Anonymous}, question_id \in Questions,
          method \in Methods :
           \E body \in Forms(method, EditFields) :
               EditQuestion(user, question_id, method, body)
    \/ \E user \in Users \cup {Anonymous}, answer_id \in AnswerIds,
          method \in Methods :
           \E text \in Forms(method, EditFields) :
               EditAnswer(user, answer_id, method, text)
    \/ \E user \in Users \cup {Anonymous}, question_id \in Questions,
          method \in Methods :
           \E next_url \in Forms(method, NextFields) :
               DeleteQuestion(user, question_id, method, next_url)
    \/ \E user \in Users \cup {Anonymous}, answer_id \in AnswerIds,
          method \in Methods :
           \E next_url \in Forms(method, NextFields) :
               DeleteAnswer(user, answer_id, method, next_url)

OwnerSpec == Init /\ [][OwnerNext]_vars

(***************************************************************************)
(* Claims about deletion and ownership                                     *)
(***************************************************************************)
\* C18: deleting a Question removes its Answers, Votes and Views and the
\* Votes of its Answers, and deleting an Answer removes its Votes: every
\* stored Answer, Vote and View row references a Question or Answer that is
\* still stored.
C18_NoRowOutlivesItsTarget ==
    /\ \A a \in answers : \E q \in questions : q.pk = a.question
    /\ \A v \in votes["Question"] : \E q \in questions : q.pk = v.target
    /\ \A v \in votes["Answer"] : \E a \in answers : a.pk = v.target
    /\ \A v \in views : \E q \in questions : q.pk = v.question

\* The deletion of a question took an answer, a vote on the question, a
\* vote on the answer and a view with it
C18_Witness ==
    /\ request.view = "delete_question"
    /\ request.deleted.Question = 1
    /\ request.deleted.Answer = 1
    /\ request.deleted.QuestionVote = 1
    /\ request.deleted.AnswerVote = 1
    /\ request.deleted.View >= 1
    /\ questions = {}

DeleteViews == {"delete_question", "delete_answer"}

\* The destination C17 names for a deletion request
ExpectedRedirect(req) ==
    IF req.view = "delete_question"
    THEN (IF req.next \in {None, "None", DetailUrl} THEN "302 questions" ELSE req.next)
    ELSE (IF req.next \in {None, "None"} THEN "302 detail" ELSE req.next)

\* C17: after the author's POST deleted a Question or an Answer the
\* response redirects to the default (the question list, the parent
\* question's detail page) when 'next' is absent, is "None" or, for a
\* Question, is the deleted question's detail page, and to 'next' itself in
\* every other case.
C17_DeleteRedirectsToNextOrDefault ==
    (request.view \in DeleteViews /\ request.deleted # NoneDeleted)
        => response = ExpectedRedirect(request)

EditDeleteViews == {"edit_question", "edit_answer", "delete_question", "delete_answer"}

\* The rows an edit or delete request names, in the store it arrives at
ContentOf(req) ==
    IF req.view \in {"edit_question", "delete_question"}
    THEN RowsWithPk(questions, req.id)
    ELSE RowsWithPk(answers, req.id)

\* An authenticated edit or delete request for content that is missing or
\* is someone else's ends in 404 and changes nothing
NonAuthorIsNotFound ==
    (/\ request'.view \in EditDeleteViews
     /\ request'.user \in Users
     /\ \A content \in ContentOf(request') : content.author # request'.user)
        => /\ response' = "404"
           /\ UNCHANGED <<questions, answers, votes, views>>

\* A question row changes or goes only by a request of its author
QuestionsChangeByAuthor ==
    \A q \in questions : q \notin questions' => request'.user = q.author

\* An answer row changes or goes only by a request of its author
AnswersChangeByAuthor ==
    \A a \in answers : a \notin answers' => request'.user = a.author

\* ... or when the author of its question deletes the question
AnswersChangeByAuthorOrCascade ==
    \A a \in answers :
        a \notin answers' =>
            \/ request'.user = a.author
            \/ /\ request'.view = "delete_question"
               /\ \E q \in questions : /\ q.pk = a.question
                                       /\ q.author = request'.user
                                       /\ q \notin questions'

\* C16: an edit or delete request (GET or POST) by an authenticated user
\* who is not the content's author ends in 404, as for an id that does not
\* exist, and changes nothing; a Question or Answer is modified or deleted
\* only by a request from its author.
C16_OnlyTheAuthorChangesContent ==
    [][NonAuthorIsNotFound /\ QuestionsChangeByAuthor /\ AnswersChangeByAuthor]_vars

\* C16, amended: as above, but an Answer is also deleted when the author of
\* its Question deletes the Question.
C16_OnlyTheAuthorOrACascadeChangesContent ==
    [][NonAuthorIsNotFound /\ QuestionsChangeByAuthor
         /\ AnswersChangeByAuthorOrCascade]_vars

\* u1's POST to delete u2's answer ended in 404 and the answer is stored
C16_Witness ==
    /\ request.view = "delete_answer"
    /\ request.method = "POST"
    /\ request.user = "u1"
    /\ response = "404"
    /\ \E a \in answers : a.pk = request.id /\ a.author = "u2"

(***************************************************************************)
(* Claims about who a detail-page POST writes for                          *)
(***************************************************************************)
\* The rows of a table that a step added or changed
Written(before, after) == after \ before

\* C21: a POST to the detail page of a stored question by an
\* unauthenticated client is answered with a redirect to the login page and
\* leaves Questions, Answers, Votes and Views as they were; the Answer and
\* Vote rows a POST writes are its authenticated requester's; and no POST
\* records a view.
C21_AnonymousPostChangesNothing ==
    [][(request'.view = "detail" /\ request'.method = "POST")
          => /\ views' = views /\ viewPk' = viewPk
             /\ \A a \in Written(answers, answers') :
                    a.author = request'.user /\ a.author \in Users
             /\ \A k \in Kinds : \A v \in Written(votes[k], votes'[k]) :
                    v.user = request'.user /\ v.user \in Users
             /\ (request'.user = Anonymous
                   /\ RowsWithPk(questions, request'.id) # {})
                    => /\ response' = "302 login"
                       /\ UNCHANGED <<questions, answers, votes, views>>]_vars

\* An anonymous POST to a question with an answer, a vote and a view was
\* sent to the login page
C21_Witness ==
    /\ request.view = "detail"
    /\ request.method = "POST"
    /\ request.user = Anonymous
    /\ response = "302 login"
    /\ questions # {}
    /\ answers # {}
    /\ votes["Question"] # {}
    /\ views # {}

====
